---- MODULE Spec2Model ----
(***************************************************************************)
(* Harmonic Explorer (src/harmonic_explorer.py): a cloud of particles      *)
(* driven by a time-varying radial/tangential force field.                 *)
(*                                                                         *)
(* Number representation.  The program computes in float64.  Here every    *)
(* float is a fixed-point integer counting units of 1/Scale (1e-4), and    *)
(* every arithmetic operation rounds its exact result to the nearest unit, *)
(* as a float operation rounds to the nearest representable value.  Angles *)
(* are integers counting 1/Turn of a full turn (1e-5 turn).  One reserved  *)
(* value, NaN, stands for the non-finite results (nan, inf) that numpy      *)
(* returns from a division by zero; it propagates through the arithmetic.  *)
(* sin/cos are a 1000-entry-per-turn table at 4 decimals with linear       *)
(* interpolation; sqrt and arctan2 are computed by bisection to the        *)
(* nearest unit.                                                           *)
(***************************************************************************)
EXTENDS Integers, Sequences, FiniteSets, TLC

\* ------------------------------------------------------------ bounds
\* Largest number of update() calls made on one simulator.
MaxCalls == 3

\* ------------------------------------------------------ number model
\* Fixed-point units per 1.0.
Scale == 10000
\* Angle units per full turn (2*pi).
Turn == 100000
\* Angle units between two entries of SinTable.
TableStep == 100
\* The non-finite float (nan / inf).
NaN == -2000000000

Abs(a) == IF a < 0 THEN -a ELSE a

\* a / b rounded to the nearest integer (b > 0), halves away from zero.
RoundDiv(a, b) ==
  IF a >= 0 THEN (2 * a + b) \div (2 * b) ELSE -((2 * (-a) + b) \div (2 * b))

\* float + float
FAdd(a, b) == IF a = NaN \/ b = NaN THEN NaN ELSE a + b

\* -float
FNeg(a) == IF a = NaN THEN NaN ELSE -a

\* float * float
FMul(a, b) == IF a = NaN \/ b = NaN THEN NaN ELSE RoundDiv(a * b, Scale)

\* Largest f in lo .. hi-1 with f*f <= n, by bisection.
RECURSIVE SqrtSearch(_, _, _)
SqrtSearch(lo, hi, n) ==
  IF hi - lo <= 1 THEN lo
  ELSE LET mid == (lo + hi) \div 2
       IN IF mid * mid <= n THEN SqrtSearch(mid, hi, n) ELSE SqrtSearch(lo, mid, n)

\* sqrt(n) rounded to the nearest integer, 0 <= n < 2^31.
RSqrt(n) ==
  LET f == SqrtSearch(0, 46341, n)
  IN IF n - f * f > f THEN f + 1 ELSE f

\* np.sqrt of a float given in units of 1/Scale.
FSqrt(a) == IF a = NaN THEN NaN ELSE RSqrt(a * Scale)

\* sin over the first quarter turn, k * TableStep angle units -> SinTable[k+1].
SinTable ==
  <<
     0, 63, 126, 188, 251, 314, 377, 440, 502, 565, 628, 691, 753, 816,
     879, 941, 1004, 1066, 1129, 1191, 1253, 1316, 1378, 1440, 1502, 1564, 1626, 1688,
     1750, 1812, 1874, 1935, 1997, 2059, 2120, 2181, 2243, 2304, 2365, 2426, 2487, 2548,
     2608, 2669, 2730, 2790, 2850, 2910, 2970, 3030, 3090, 3150, 3209, 3269, 3328, 3387,
     3446, 3505, 3564, 3623, 3681, 3740, 3798, 3856, 3914, 3971, 4029, 4086, 4144, 4201,
     4258, 4315, 4371, 4428, 4484, 4540, 4596, 4652, 4707, 4762, 4818, 4873, 4927, 4982,
     5036, 5090, 5144, 5198, 5252, 5305, 5358, 5411, 5464, 5516, 5569, 5621, 5673, 5724,
     5776, 5827, 5878, 5929, 5979, 6029, 6079, 6129, 6179, 6228, 6277, 6326, 6374, 6423,
     6471, 6518, 6566, 6613, 6660, 6707, 6753, 6800, 6845, 6891, 6937, 6982, 7026, 7071,
     7115, 7159, 7203, 7247, 7290, 7333, 7375, 7417, 7459, 7501, 7543, 7584, 7624, 7665,
     7705, 7745, 7785, 7824, 7863, 7902, 7940, 7978, 8016, 8053, 8090, 8127, 8163, 8200,
     8235, 8271, 8306, 8341, 8375, 8409, 8443, 8477, 8510, 8543, 8575, 8607, 8639, 8671,
     8702, 8733, 8763, 8793, 8823, 8852, 8881, 8910, 8938, 8966, 8994, 9021, 9048, 9075,
     9101, 9127, 9152, 9178, 9202, 9227, 9251, 9274, 9298, 9321, 9343, 9365, 9387, 9409,
     9430, 9451, 9471, 9491, 9511, 9530, 9549, 9567, 9585, 9603, 9620, 9637, 9654, 9670,
     9686, 9701, 9716, 9731, 9745, 9759, 9773, 9786, 9799, 9811, 9823, 9834, 9846, 9856,
     9867, 9877, 9887, 9896, 9905, 9913, 9921, 9929, 9936, 9943, 9950, 9956, 9961, 9967,
     9972, 9976, 9980, 9984, 9987, 9990, 9993, 9995, 9997, 9998, 9999, 10000, 10000
  >>

\* sin of an angle in 0 .. Turn \div 4, interpolated between table entries.
SinQuarter(a) ==
  LET k == a \div TableStep
      f == a % TableStep
  IN IF f = 0 THEN SinTable[k + 1]
     ELSE SinTable[k + 1] + RoundDiv((SinTable[k + 2] - SinTable[k + 1]) * f, TableStep)

\* np.sin of an angle in angle units; the result is in units of 1/Scale.
Sin(a) ==
  IF a = NaN THEN NaN
  ELSE LET m == a % Turn
           q == Turn \div 4
       IN IF m <= q THEN SinQuarter(m)
          ELSE IF m <= 2 * q THEN SinQuarter(2 * q - m)
          ELSE IF m <= 3 * q THEN -SinQuarter(m - 2 * q)
          ELSE -SinQuarter(Turn - m)

\* np.cos of an angle in angle units.
Cos(a) == IF a = NaN THEN NaN ELSE Sin(a + Turn \div 4)

\* Cross product of the unit vector at angle q with the vector (ax, ay): positive
\* while q is below the vector's angle, negative above it.
Cross(q, ax, ay) == ay * Cos(q) - ax * Sin(q)

\* Largest q in lo .. hi-1 with Cross(q) >= 0, by bisection.
RECURSIVE AtanBelow(_, _, _, _)
AtanBelow(lo, hi, ax, ay) ==
  IF hi - lo <= 1 THEN lo
  ELSE LET mid == (lo + hi) \div 2
       IN IF Cross(mid, ax, ay) >= 0 THEN AtanBelow(mid, hi, ax, ay)
          ELSE AtanBelow(lo, mid, ax, ay)

\* Smallest q' <= q with Cross = 0 on all of q' .. q (q itself when Cross(q) > 0
\* has no zero below it).
RECURSIVE ZeroStart(_, _, _)
ZeroStart(q, ax, ay) ==
  IF q > 0 /\ Cross(q - 1, ax, ay) <= 0 THEN ZeroStart(q - 1, ax, ay) ELSE q

\* The angle among hi, hi + 1 and the zeros of Cross ending at hi whose cross
\* product with (ax, ay) is nearest zero (the middle one of several zeros).
NearestAngle(hi, c, ax, ay) ==
  IF c = 0 THEN (ZeroStart(hi, ax, ay) + hi) \div 2
  ELSE IF hi < Turn \div 4 /\ -Cross(hi + 1, ax, ay) < c THEN hi + 1
  ELSE hi

\* The angle of (ax, ay), ax >= 0, ay >= 0, in 0 .. Turn/4.
QuadrantAngle(hi, ax, ay) == NearestAngle(hi, Cross(hi, ax, ay), ax, ay)

\* The first-quadrant angle q placed by the signs of x and y.
PlaceAngle(q, y, x) ==
  IF x >= 0 /\ y >= 0 THEN q
  ELSE IF x < 0 /\ y >= 0 THEN Turn \div 2 - q
  ELSE IF x < 0 THEN q - Turn \div 2
  ELSE -q

\* np.arctan2(y, x) in angle units, in (-Turn/2, Turn/2]; arctan2(0, 0) = 0.
ArcTan2(y, x) ==
  IF y = NaN \/ x = NaN THEN NaN
  ELSE IF x = 0 /\ y = 0 THEN 0
  ELSE PlaceAngle(QuadrantAngle(AtanBelow(0, Turn \div 4 + 1, Abs(x), Abs(y)),
                                Abs(x), Abs(y)), y, x)

\* numpy evaluates an array expression once, into a new array: the explicit
\* sequence of the elements of f.
Array(f) == SubSeq(f, 1, Len(f))

\* ------------------------------------------------------------- inputs
\* The two simulator objects of the model: the program's `sim`, and a second
\* instance of the class built with the same arguments.
Sims == {"A", "B"}

\* Harmonic ratios p_radial:p_tangential passed to the constructor.
Ratios == {<<8, 8>>, <<3, 2>>}

\* num_particles arguments passed to the constructor.
ParticleCounts == {-1, 0, 1, 2}

\* damping_factor arguments passed to the constructor (0.98, 1.5).
Dampings == {9800, 15000}

\* Values np.random.rand() returns, in [0, 1): 0.0 and 0.99.
RandSamples == {0, 9900}

\* ---------------------------------------------------- program constants
\* self.dt = 0.01
TimeStep == 100
\* self.base_freq = 0.1
BaseFreq == 1000
\* self.force_amplitude = 1.0
ForceAmplitude == 10000
\* radius of the initial disk: the 3 of sqrt(rand) * 3
DiskRadius == 3
\* 1 / 1e-9, the radius substituted for r == 0
RFloorInv == 1000000000

VARIABLES
  sim,     \* sim[s]: the fields of simulator object s (self.*), or NoSim
  frame,   \* frame[s]: the locals and return value of s's last update() call
  view,    \* the scatter plot and axes animate() draws into
  hist     \* hist[s]: constructor arguments, its outcome, number of update() calls

vars == <<sim, frame, view, hist>>

NoSim == [status |-> "none"]

NoFrame ==
  [called |-> FALSE, r |-> <<>>, theta |-> <<>>, F_radial_mag |-> <<>>,
   F_tangential_mag |-> 0, forces |-> <<>>, ret |-> <<>>]

NoHist ==
  [attempted |-> FALSE, error |-> "none", args |-> <<>>, calls |-> 0,
   positions0 |-> <<>>]

NoView == [offsets |-> <<>>, lim |-> 0, error |-> "none"]

\* ------------------------------------------------ _initialize_particles
\* r = np.sqrt(np.random.rand(N)) * 3, for the draws u (one per particle)
InitRadius(u) == Array([i \in DOMAIN u |-> FSqrt(u[i]) * DiskRadius])

\* theta = 2 * np.pi * np.random.rand(N): a fraction u of a full turn
InitTheta(u) == Array([i \in DOMAIN u |-> (u[i] * Turn) \div Scale])

\* Variant of InitPositions: one particle more than asked for (rand(N + 1)).
InitPositionsOneMore(ur, ut) ==
  Array([i \in 1..(Len(ur) + 1) |->
     IF i <= Len(ur)
     THEN <<FMul(InitRadius(ur)[i], Cos(InitTheta(ut)[i])),
            FMul(InitRadius(ur)[i], Sin(InitTheta(ut)[i]))>>
     ELSE <<0, 0>>])

\* positions = np.array([r * cos(theta), r * sin(theta)]).T
InitPositions(ur, ut) ==
  Array([i \in DOMAIN ur |->
     <<FMul(InitRadius(ur)[i], Cos(InitTheta(ut)[i])),
       FMul(InitRadius(ur)[i], Sin(InitTheta(ut)[i]))>>])

\* velocities = np.zeros_like(positions)
ZerosLike(p) == Array([i \in DOMAIN p |-> <<0, 0>>])

\* The object __init__ leaves behind for num_particles >= 0.
NewSim(pr, pt, n, d, ur, ut) ==
  [status |-> "ok",
   p_radial |-> pr, p_tangential |-> pt, N |-> n, damping |-> d,
   dt |-> TimeStep, base_freq |-> BaseFreq, force_amplitude |-> ForceAmplitude,
   t |-> 0,
   positions |-> InitPositions(ur, ut),
   velocities |-> ZerosLike(InitPositions(ur, ut))]

\* np.random.rand(n) raises ValueError for a negative n; nothing else in
\* __init__ inspects its arguments.
ConstructRaises(pr, pt, n, d) == n < 0

\* HarmonicExplorer(p_radial=pr, p_tangential=pt, num_particles=n, damping_factor=d)
Construct(s, pr, pt, n, d) ==
  /\ ~hist[s].attempted
  /\ IF ConstructRaises(pr, pt, n, d)
     THEN /\ sim' = [sim EXCEPT ![s] = NoSim]
          /\ hist' = [hist EXCEPT ![s] =
                        [attempted |-> TRUE, error |-> "ValueError",
                         args |-> <<pr, pt, n, d>>, calls |-> 0, positions0 |-> <<>>]]
     ELSE \E ur \in [1..n -> RandSamples], ut \in [1..n -> RandSamples] :
            /\ sim' = [sim EXCEPT ![s] = NewSim(pr, pt, n, d, ur, ut)]
            /\ hist' = [hist EXCEPT ![s] =
                          [attempted |-> TRUE, error |-> "none",
                           args |-> <<pr, pt, n, d>>, calls |-> 0,
                           positions0 |-> InitPositions(ur, ut)]]
  /\ UNCHANGED <<frame, view>>

\* sim = HarmonicExplorer(...): the program's simulator, any arguments.
ConstructSim ==
  \E ratio \in Ratios, n \in ParticleCounts, d \in Dampings :
    Construct("A", ratio[1], ratio[2], n, d)

\* A second instance built with the arguments the first was built with.
ConstructSecond ==
  /\ hist["A"].attempted
  /\ Construct("B", hist["A"].args[1], hist["A"].args[2], hist["A"].args[3],
               hist["A"].args[4])

\* ---------------------------------------------------------------- update
\* x, y = self.positions[:, 0], self.positions[:, 1]
Column(p, c) == Array([i \in DOMAIN p |-> p[i][c]])

\* r = np.sqrt(x**2 + y**2), in units of 1/Scale
RawRadius(x, y) ==
  Array([i \in DOMAIN x |->
     IF x[i] = NaN \/ y[i] = NaN THEN NaN ELSE RSqrt(x[i] * x[i] + y[i] * y[i])])

\* Variant of RadiusFloor: no substitution for r == 0.
RadiusNoFloor(r0) == [num |-> r0, den |-> Scale]

\* r[r == 0] = 1e-9.  A radius is the fraction num/den: a computed radius
\* is num units of 1/Scale, the substituted one is 1/RFloorInv.
RadiusFloor(r0) ==
  IF r0 = 0 THEN [num |-> 1, den |-> RFloorInv] ELSE [num |-> r0, den |-> Scale]

Radius(x, y) == Array([i \in DOMAIN x |-> RadiusFloor(RawRadius(x, y)[i])])

\* Variant of Theta: every particle given the angle of particle 0.
ThetaOfFirst(x, y) == Array([i \in DOMAIN x |-> ArcTan2(y[1], x[1])])

\* theta = np.arctan2(y, x)
Theta(x, y) == Array([i \in DOMAIN x |-> ArcTan2(y[i], x[i])])

\* The angle 2 * np.pi * p * self.base_freq * self.t, in angle units.
Phase(p, f, t) == RoundDiv(p * f * t, (Scale * Scale) \div Turn)

\* The angle self.p_tangential * theta, in angle units.
Harmonic(p, th) == IF th = NaN THEN NaN ELSE p * th

\* F_radial_mag = force_amplitude * sin(2 pi p_radial base_freq t) * cos(p_tangential * theta)
FRadialMag(sm, theta) ==
  Array([i \in DOMAIN theta |->
     FMul(FMul(sm.force_amplitude, Sin(Phase(sm.p_radial, sm.base_freq, sm.t))),
          Cos(Harmonic(sm.p_tangential, theta[i])))])

\* Variant of FTangentialMag: the amplitude factor left out.
FTangentialMagUnit(sm) == Cos(Phase(sm.p_tangential, sm.base_freq, sm.t))

\* Variant of FTangentialMag: the clock of the module-level `sim` read in
\* place of self.t.
FTangentialMagGlobalSim(sm) ==
  FMul(sm.force_amplitude, Cos(Phase(sm.p_tangential, sm.base_freq, sim["A"].t)))

\* F_tangential_mag = force_amplitude * cos(2 pi p_tangential base_freq t): a scalar
FTangentialMag(sm) ==
  FMul(sm.force_amplitude, Cos(Phase(sm.p_tangential, sm.base_freq, sm.t)))

\* a / r for a radius r = num/den; a division by zero gives nan or inf
FDiv(a, r) ==
  IF a = NaN \/ r.num = NaN \/ r.num = 0 THEN NaN ELSE RoundDiv(a * r.den, r.num)

\* r_hat_x, r_hat_y = x / r, y / r
RHat(x, y, r) == Array([i \in DOMAIN x |-> <<FDiv(x[i], r[i]), FDiv(y[i], r[i])>>])

\* Variant of THat: the tangential unit vector taken from the angle,
\* (-sin(theta), cos(theta)), equal to (-y/r, x/r) except at the origin.
THatFromAngle(x, y, r) ==
  Array([i \in DOMAIN x |->
     <<FNeg(Sin(ArcTan2(y[i], x[i]))), Cos(ArcTan2(y[i], x[i]))>>])

\* t_hat_x, t_hat_y = -y / r, x / r
THat(x, y, r) == Array([i \in DOMAIN x |-> <<FDiv(FNeg(y[i]), r[i]), FDiv(x[i], r[i])>>])

\* force_x = r_hat_x * F_radial_mag + t_hat_x * F_tangential_mag, likewise force_y;
\* forces = np.column_stack((force_x, force_y))
Forces(rh, th, Fr, Ft) ==
  Array([i \in DOMAIN rh |->
     <<FAdd(FMul(rh[i][1], Fr[i]), FMul(th[i][1], Ft)),
       FAdd(FMul(rh[i][2], Fr[i]), FMul(th[i][2], Ft))>>])

\* self.velocities *= self.damping
Damped(v, damping) ==
  Array([i \in DOMAIN v |-> <<FMul(v[i][1], damping), FMul(v[i][2], damping)>>])

\* self.velocities += forces * self.dt
Accelerated(v, forces, dt) ==
  Array([i \in DOMAIN v |->
     <<FAdd(v[i][1], FMul(forces[i][1], dt)), FAdd(v[i][2], FMul(forces[i][2], dt))>>])

\* self.positions += self.velocities * self.dt
Moved(p, v, dt) ==
  Array([i \in DOMAIN p |->
     <<FAdd(p[i][1], FMul(v[i][1], dt)), FAdd(p[i][2], FMul(v[i][2], dt))>>])

\* Variant of NewT: the clock advanced inside the per-particle work.
NewTPerParticle(sm) == sm.t + sm.N * sm.dt

\* self.t += self.dt
NewT(sm) == sm.t + sm.dt

\* Variant of UpdateCall: explicit Euler, the position moved with the velocity
\* held before the call.
UpdateCallOldVelocity(sm) ==
  LET x      == Column(sm.positions, 1)
      y      == Column(sm.positions, 2)
      r      == Radius(x, y)
      theta  == Theta(x, y)
      Fr     == FRadialMag(sm, theta)
      Ft     == FTangentialMag(sm)
      forces == Forces(RHat(x, y, r), THat(x, y, r), Fr, Ft)
      v1     == Damped(sm.velocities, sm.damping)
      v2     == Accelerated(v1, forces, sm.dt)
      p2     == Moved(sm.positions, sm.velocities, sm.dt)
  IN [r |-> r, theta |-> theta, F_radial_mag |-> Fr, F_tangential_mag |-> Ft,
      forces |-> forces, velocities |-> v2, positions |-> p2, t |-> NewT(sm)]

\* One execution of update() on the object sm: its locals in statement
\* order, the three fields it assigns, and the value it returns.
UpdateCall(sm) ==
  LET x      == Column(sm.positions, 1)
      y      == Column(sm.positions, 2)
      r      == Radius(x, y)
      theta  == Theta(x, y)
      Fr     == FRadialMag(sm, theta)
      Ft     == FTangentialMag(sm)
      forces == Forces(RHat(x, y, r), THat(x, y, r), Fr, Ft)
      v1     == Damped(sm.velocities, sm.damping)
      v2     == Accelerated(v1, forces, sm.dt)
      p2     == Moved(sm.positions, v2, sm.dt)
  IN [r |-> r, theta |-> theta, F_radial_mag |-> Fr, F_tangential_mag |-> Ft,
      forces |-> forces, velocities |-> v2, positions |-> p2, t |-> NewT(sm)]

\* Variant of UpdateSim: `self.dt += self.dt` written for `self.t += self.dt`.
UpdateSimDtTypo(sm) ==
  LET c == UpdateCall(sm)
  IN [sm EXCEPT !.velocities = c.velocities, !.positions = c.positions,
                !.dt = sm.dt + sm.dt]

\* The object after update(): only velocities, positions and t are assigned.
UpdateSim(sm) ==
  LET c == UpdateCall(sm)
  IN [sm EXCEPT !.velocities = c.velocities, !.positions = c.positions, !.t = c.t]

\* The locals of the call, and `return self.positions`.
UpdateFrame(sm) ==
  LET c == UpdateCall(sm)
  IN [called |-> TRUE, r |-> c.r, theta |-> c.theta, F_radial_mag |-> c.F_radial_mag,
      F_tangential_mag |-> c.F_tangential_mag, forces |-> c.forces,
      ret |-> c.positions]

\* s.update(), on a constructed simulator
DoUpdate(s) ==
  /\ sim[s].status = "ok"
  /\ hist[s].calls < MaxCalls
  /\ sim' = [sim EXCEPT ![s] = UpdateSim(sim[s])]
  /\ frame' = [frame EXCEPT ![s] = UpdateFrame(sim[s])]
  /\ hist' = [hist EXCEPT ![s].calls = @ + 1]

\* A direct call of update() on the second instance.
Update == DoUpdate("B") /\ UNCHANGED view

\* np.max(np.abs(positions)): the largest |coordinate|
MaxAbs(p) ==
  LET cs == {Abs(p[i][1]) : i \in DOMAIN p} \cup {Abs(p[i][2]) : i \in DOMAIN p}
  IN CHOOSE m \in cs : \A c \in cs : c <= m

\* lim = np.max(np.abs(positions)) * 1.2; np.max of an array holding nan is nan,
\* and nan > 0 is False.
AxisLimit(p) ==
  IF \E i \in DOMAIN p : p[i][1] = NaN \/ p[i][2] = NaN THEN NaN
  ELSE RoundDiv(MaxAbs(p) * 12, 10)

\* animate(frame) of the main block, on the program's sim:
\*   positions = sim.update(); scatter.set_offsets(positions);
\*   lim = ...; if lim > 0: ax.set_xlim(-lim, lim); ax.set_ylim(-lim, lim)
\* np.max raises ValueError on an empty array, after the update and set_offsets.
Animate ==
  /\ view.error = "none"
  /\ DoUpdate("A")
  /\ LET positions == frame'["A"].ret
     IN IF Len(positions) = 0
        THEN view' = [view EXCEPT !.offsets = positions, !.error = "ValueError"]
        ELSE view' = [view EXCEPT !.offsets = positions,
                                  !.lim = IF AxisLimit(positions) > 0
                                          THEN AxisLimit(positions) ELSE @]

Init ==
  /\ sim = [s \in Sims |-> NoSim]
  /\ frame = [s \in Sims |-> NoFrame]
  /\ hist = [s \in Sims |-> NoHist]
  /\ view = NoView

Next ==
  \/ ConstructSim
  \/ ConstructSecond
  \/ Update
  \/ Animate

Spec == Init /\ [][Next]_vars

\* ------------------------------------------------- update() on any state
\* update() as a function of the object's fields: a second specification
\* starts from simulator objects whose fields are drawn from the sets below
\* (force_amplitude is an attribute, like every other field) and applies
\* update() to them.

\* (position, velocity) of one particle.
StateParticles ==
  { <<<<10000, 0>>, <<0, 0>>>>,
    <<<<0, 0>>, <<0, 0>>>>,
    <<<<0, -20000>>, <<100, -50>>>>,
    <<<<-15000, 15000>>, <<-3, 7>>>> }

\* Particle counts, damping factors, clock values and force amplitudes drawn.
StateCounts == {1, 2}
StateDampings == {9800, 5000}
StateClocks == {0, 2500}
StateAmplitudes == {0, ForceAmplitude}

DrawnSim(ratio, n, d, t0, amp, ps) ==
  [status |-> "ok",
   p_radial |-> ratio[1], p_tangential |-> ratio[2], N |-> n, damping |-> d,
   dt |-> TimeStep, base_freq |-> BaseFreq, force_amplitude |-> amp,
   t |-> t0,
   positions |-> Array([i \in 1..n |-> ps[i][1]]),
   velocities |-> Array([i \in 1..n |-> ps[i][2]])]

InitDrawn ==
  \E ratio \in Ratios, n \in StateCounts, d \in StateDampings, t0 \in StateClocks,
     amp \in StateAmplitudes :
    \E ps \in [1..n -> StateParticles] :
      /\ sim = [s \in Sims |-> IF s = "B" THEN DrawnSim(ratio, n, d, t0, amp, ps) ELSE NoSim]
      /\ frame = [s \in Sims |-> NoFrame]
      /\ hist = [s \in Sims |->
                   IF s = "B"
                   THEN [attempted |-> TRUE, error |-> "none",
                         args |-> <<ratio[1], ratio[2], n, d>>, calls |-> 0,
                         positions0 |-> Array([i \in 1..n |-> ps[i][1]])]
                   ELSE NoHist]
      /\ view = NoView

NextUpdate == Update

SpecUpdate == InitDrawn /\ [][NextUpdate]_vars

\* ------------------------------------------------------------ properties
Constructed(s) == sim[s].status = "ok"

\* The step is an update() call on simulator s.
UpdateStep(s) == hist'[s].calls = hist[s].calls + 1

Particles(s) == DOMAIN sim[s].positions

\* C1: construction validates its configuration: particle_count <= 0,
\* damping_factor outside (0,1] or time_step <= 0 makes construction fail with
\* InvalidConfig and produce no simulator; only valid configurations yield one.
ValidConfig(n, d, dt) == n > 0 /\ d > 0 /\ d <= Scale /\ dt > 0

\* C1: every attempted construction either had a valid configuration and
\* produced a simulator, or failed with InvalidConfig and produced none.
C1_ConstructionValidates ==
  \A s \in Sims :
    hist[s].attempted =>
      IF ValidConfig(hist[s].args[3], hist[s].args[4], TimeStep)
      THEN Constructed(s)
      ELSE sim[s] = NoSim /\ hist[s].error = "InvalidConfig"

\* C2: the clock starts at 0 and advances by exactly time_step once per
\* update() call, whatever the particle count: after k calls t = k * time_step;
\* and no step decreases or resets it.
C2_ClockAfterCalls ==
  \A s \in Sims : Constructed(s) => sim[s].t = hist[s].calls * sim[s].dt

C2_ClockMonotone ==
  \A s \in Sims : Constructed(s) => sim'[s].t >= sim[s].t

\* C2: always t = calls * time_step, and no step decreases t.
C2_Clock == [](C2_ClockAfterCalls) /\ [][C2_ClockMonotone]_vars

C2_Witness ==
  \E s \in Sims : Constructed(s) /\ sim[s].N = 2 /\ hist[s].calls = 2 /\ sim[s].t = 2 * TimeStep

\* C3: construction produces exactly particle_count particles, each within
\* radius 3 and at rest; every later state still holds particle_count position
\* and velocity records, and slot i of an update's result is slot i of its
\* input moved by its own velocity (no insertion, removal or reordering).
C3_CloudShape ==
  \A s \in Sims :
    Constructed(s) =>
      /\ DOMAIN sim[s].positions = 1..sim[s].N
      /\ DOMAIN sim[s].velocities = 1..sim[s].N
      /\ \A i \in Particles(s) : Len(sim[s].positions[i]) = 2 /\ Len(sim[s].velocities[i]) = 2
      /\ hist[s].calls = 0 =>
           \A i \in Particles(s) :
             /\ RSqrt(sim[s].positions[i][1] * sim[s].positions[i][1]
                      + sim[s].positions[i][2] * sim[s].positions[i][2]) <= DiskRadius * Scale
             /\ sim[s].velocities[i] = <<0, 0>>

C3_StableIndex ==
  \A s \in Sims :
    Constructed(s) /\ UpdateStep(s) =>
      \A i \in Particles(s) :
        sim'[s].positions[i] =
          <<sim[s].positions[i][1] + FMul(sim'[s].velocities[i][1], sim[s].dt),
            sim[s].positions[i][2] + FMul(sim'[s].velocities[i][2], sim[s].dt)>>

\* C3: the cloud always has particle_count rows (within radius 3 and at rest
\* at construction), and an update keeps every particle in its slot.
C3_Cloud == [](C3_CloudShape) /\ [][C3_StableIndex]_vars

C3_Witness ==
  \E s \in Sims :
    /\ Constructed(s) /\ sim[s].N = 2 /\ hist[s].calls = 2
    /\ sim[s].positions[1] # sim[s].positions[2]
    /\ sim[s].positions[2] # hist[s].positions0[2]
    /\ hist[s].positions0[2] # <<0, 0>>

\* C4: an update() call integrates every particle in this order, with the
\* force F of the position and clock held before the call: v <- v * damping,
\* v <- v + F * dt, p <- p + v * dt with the updated v, then t <- t + dt.
\* From p=(1,0), v=(0,0), t=0, damping 0.98, dt 0.01, amplitude 1, ratio 8:8,
\* one call gives F=(0,1), v=(0,0.01), p=(1.0,0.0001), t=0.01.
C4_Scenario(sm) ==
  /\ sm.positions[1] = <<10000, 0>> /\ sm.velocities[1] = <<0, 0>> /\ sm.t = 0
  /\ sm.damping = 9800 /\ sm.dt = 100 /\ sm.force_amplitude = 10000
  /\ sm.p_radial = 8 /\ sm.p_tangential = 8

C4_Step(s) ==
  LET old == sim[s]
      new == sim'[s]
      F   == frame'[s].forces
  IN /\ frame'[s].F_tangential_mag =
          FMul(old.force_amplitude, Cos(Phase(old.p_tangential, old.base_freq, old.t)))
     /\ \A i \in Particles(s) :
          /\ frame'[s].theta[i] = ArcTan2(old.positions[i][2], old.positions[i][1])
          /\ new.velocities[i] =
               <<FMul(old.velocities[i][1], old.damping) + FMul(F[i][1], old.dt),
                 FMul(old.velocities[i][2], old.damping) + FMul(F[i][2], old.dt)>>
          /\ new.positions[i] =
               <<old.positions[i][1] + FMul(new.velocities[i][1], old.dt),
                 old.positions[i][2] + FMul(new.velocities[i][2], old.dt)>>
     /\ new.t = old.t + old.dt
     /\ C4_Scenario(old) =>
          /\ F[1] = <<0, 10000>>
          /\ new.velocities[1] = <<0, 100>>
          /\ new.positions[1] = <<10000, 1>>
          /\ new.t = 100

\* C4: every update() step damps, accelerates with the pre-call force, moves
\* with the new velocity and then advances the clock; the 8:8 scenario gives
\* exactly the stated numbers.
C4_IntegrationOrder ==
  [][\A s \in Sims : Constructed(s) /\ UpdateStep(s) => C4_Step(s)]_vars

C4_Witness ==
  /\ Constructed("B") /\ hist["B"].calls = 1 /\ sim["B"].t = 100
  /\ hist["B"].positions0[1] = <<10000, 0>>
  /\ sim["B"].positions[1] = <<10000, 1>> /\ sim["B"].velocities[1] = <<0, 100>>
  /\ frame["B"].forces[1] = <<0, 10000>>
  /\ sim["B"].damping = 9800 /\ sim["B"].p_radial = 8 /\ sim["B"].p_tangential = 8

\* C5: with force_amplitude zero and damping_factor < 1, an update() call
\* replaces each velocity component by damping_factor times its previous
\* value, so |vx| and |vy| never increase, and positions change by v * dt only.
C5_Step(s) ==
  \A i \in Particles(s) :
    /\ sim'[s].velocities[i] =
         <<FMul(sim[s].velocities[i][1], sim[s].damping),
           FMul(sim[s].velocities[i][2], sim[s].damping)>>
    /\ Abs(sim'[s].velocities[i][1]) <= Abs(sim[s].velocities[i][1])
    /\ Abs(sim'[s].velocities[i][2]) <= Abs(sim[s].velocities[i][2])
    /\ sim'[s].positions[i] =
         <<sim[s].positions[i][1] + FMul(sim'[s].velocities[i][1], sim[s].dt),
           sim[s].positions[i][2] + FMul(sim'[s].velocities[i][2], sim[s].dt)>>

\* C5: with zero amplitude and damping < 1 every update() step only scales the
\* velocities by the damping factor and moves the positions by v * dt.
C5_DampingOnly ==
  [][\A s \in Sims :
       (Constructed(s) /\ UpdateStep(s)
          /\ sim[s].force_amplitude = 0 /\ sim[s].damping < Scale) => C5_Step(s)]_vars

C5_Witness ==
  /\ Constructed("B") /\ sim["B"].force_amplitude = 0 /\ sim["B"].damping = 9800
  /\ sim["B"].N = 2 /\ hist["B"].calls = 2
  /\ sim["B"].velocities[1] = <<96, -48>>
  /\ sim["B"].positions[1] # hist["B"].positions0[1]
  /\ sim["B"].p_tangential = 2

\* C6: update() is total, also with a particle exactly at (0,0): the radius
\* used for the unit vectors is never 0 (r == 0 is replaced by 1e-9), the call
\* raises nothing and every position, velocity and returned value is finite.
Finite(p) == \A i \in DOMAIN p : p[i][1] # NaN /\ p[i][2] # NaN

\* C6: on a simulator whose damping factor is in (0,1], update() never fails:
\* the radius it divides by is never 0 and all it computes and returns is finite.
C6_UpdateTotal ==
  \A s \in Sims :
    (hist[s].attempted /\ hist[s].error = "none"
       /\ hist[s].args[4] > 0 /\ hist[s].args[4] <= Scale) =>
      /\ Constructed(s)
      /\ Finite(sim[s].positions) /\ Finite(sim[s].velocities)
      /\ frame[s].called <=> hist[s].calls > 0
      /\ frame[s].called =>
           /\ \A i \in Particles(s) : frame[s].r[i].num > 0 /\ frame[s].r[i].den > 0
           /\ Finite(frame[s].forces)
           /\ frame[s].ret = sim[s].positions

C6_Witness ==
  \E s \in Sims :
    /\ Constructed(s) /\ hist[s].calls = 2 /\ sim[s].N = 2 /\ sim[s].damping = 9800
    /\ sim[s].positions[1] = <<0, 0>> /\ frame[s].r[1] = [num |-> 1, den |-> RFloorInv]
    /\ frame[s].r[2].den = Scale

\* C7: the new position and velocity of particle i depend only on particle
\* i's own state, the clock and the configuration: two clouds of the same
\* configuration that agree on particle i agree on it after equally many
\* update() calls.  The tangential magnitude of a call depends on t only; the
\* radial magnitude on t and the particle's own angle.
SameCalls ==
  /\ Constructed("A") /\ Constructed("B")
  /\ hist["A"].calls = hist["B"].calls

\* C7: after equally many calls two clouds agree on every particle they agreed
\* on at construction, and on the tangential magnitude whatever their particles.
C7_Independent ==
  SameCalls =>
    /\ frame["A"].F_tangential_mag = frame["B"].F_tangential_mag
    /\ \A i \in Particles("A") :
         hist["A"].positions0[i] = hist["B"].positions0[i] =>
           /\ sim["A"].positions[i] = sim["B"].positions[i]
           /\ sim["A"].velocities[i] = sim["B"].velocities[i]
           /\ frame["A"].called =>
                /\ frame["A"].F_radial_mag[i] = frame["B"].F_radial_mag[i]
                /\ frame["A"].forces[i] = frame["B"].forces[i]

C7_Witness ==
  /\ SameCalls /\ hist["A"].calls = 3 /\ sim["A"].N = 2
  /\ hist["A"].positions0[1] # hist["B"].positions0[1]
  /\ hist["A"].positions0[2] = hist["B"].positions0[2]
  /\ sim["A"].positions[1] # sim["B"].positions[1]
  /\ sim["A"].positions[2] # hist["A"].positions0[2]
  /\ frame["A"].F_radial_mag[1] # frame["A"].F_radial_mag[2]
  /\ frame["A"].F_radial_mag[1] # frame["B"].F_radial_mag[1]

Config(sm) ==
  [sm EXCEPT !.positions = <<>>, !.velocities = <<>>, !.t = 0]

C9_Step(s) ==
  /\ sim'[s].p_radial = sim[s].p_radial
  /\ sim'[s].p_tangential = sim[s].p_tangential
  /\ sim'[s].N = sim[s].N
  /\ sim'[s].damping = sim[s].damping
  /\ sim'[s].dt = sim[s].dt
  /\ sim'[s].base_freq = sim[s].base_freq
  /\ sim'[s].force_amplitude = sim[s].force_amplitude
  /\ Config(sim'[s]) = Config(sim[s])

\* C9: no step changes a configuration field of a constructed simulator.
C9_ConfigImmutable == [][\A s \in Sims : Constructed(s) => C9_Step(s)]_vars

C9_Witness ==
  /\ Constructed("A") /\ Constructed("B")
  /\ hist["A"].calls = 2 /\ hist["B"].calls = 2
  /\ view.offsets = sim["A"].positions /\ view.lim > 0
  /\ sim["A"].positions # hist["A"].positions0
  /\ sim["B"].damping = hist["B"].args[4] /\ sim["A"].dt = TimeStep

\* C10: a particle exactly at (0,0) with velocity (0,0) is a fixed point of
\* update(): the floor replaces only r, so both unit vectors are (0,0) and
\* the net force is (0,0) even with a non-zero tangential magnitude; the
\* particle stays at (0,0) at rest, for every t and ratio.
C10_OriginFixed ==
  \A s \in Sims :
    Constructed(s) =>
      \A i \in Particles(s) :
        hist[s].positions0[i] = <<0, 0>> =>
          /\ sim[s].positions[i] = <<0, 0>>
          /\ sim[s].velocities[i] = <<0, 0>>
          /\ frame[s].called => frame[s].forces[i] = <<0, 0>>

C10_Witness ==
  \E s \in Sims :
    /\ Constructed(s) /\ hist[s].calls = 3
    /\ \E i \in Particles(s) :
         /\ hist[s].positions0[i] = <<0, 0>> /\ sim[s].positions[i] = <<0, 0>>
         /\ frame[s].forces[i] = <<0, 0>>
    /\ frame[s].F_tangential_mag # 0
    /\ sim[s].p_radial # sim[s].p_tangential
====
